---- MODULE Spec2Model ----
(***************************************************************************)
(* Natural-language search of the Lethbridge events app.                   *)
(*                                                                         *)
(* Two revisions of the search service live in the repository and both are *)
(* modelled, selected by the variable rev:                                 *)
(*   "current": src/src/services/openai.js (rule-based parseQuery) on top  *)
(*              of src/src/services/supabase.js;                           *)
(*   "legacy" : src/unnamed/part_004 (openai.js with the assisted parser)  *)
(*              on top of src/unnamed/part_005 (supabase.js).              *)
(*                                                                         *)
(* Text is modelled by TLA+ strings (Len, SubSeq and \o work on them);     *)
(* instants are whole seconds counted from a Sunday 00:00, the runtime's   *)
(* time zone being UTC; JSON values produced by the text-understanding     *)
(* dependency are tagged records [t |-> type, ...].                        *)
(***************************************************************************)
EXTENDS Integers, Sequences, FiniteSets, TLC

(***************************************************************************)
(* JavaScript strings                                                      *)
(***************************************************************************)
UpperChars == "ABCDEFGHIJKLMNOPQRSTUVWXYZ"

LowerChars == "abcdefghijklmnopqrstuvwxyz"

CharAt(s, i) == SubSeq(s, i, i)

\* String.prototype.toLowerCase on one character
LowerChar(c) ==
  IF \E i \in 1..Len(UpperChars) : CharAt(UpperChars, i) = c
    THEN CharAt(LowerChars, CHOOSE i \in 1..Len(UpperChars) : CharAt(UpperChars, i) = c)
    ELSE c

RECURSIVE toLowerCase(_)
toLowerCase(s) ==
  IF Len(s) = 0 THEN ""
  ELSE LowerChar(CharAt(s, 1)) \o toLowerCase(SubSeq(s, 2, Len(s)))

\* String.prototype.includes
includes(s, sub) ==
  \E i \in 1..(Len(s) - Len(sub) + 1) : SubSeq(s, i, i + Len(sub) - 1) = sub

\* Array.prototype.includes
arrIncludes(arr, x) == \E i \in 1..Len(arr) : arr[i] = x

\* index of the first blank of s at or after position i, Len(s)+1 when none
RECURSIVE NextBlank(_, _)
NextBlank(s, i) ==
  IF i > Len(s) THEN Len(s) + 1
  ELSE IF CharAt(s, i) = " " THEN i ELSE NextBlank(s, i + 1)

\* index of the first non-blank of s at or after position i, Len(s)+1 when none
RECURSIVE SkipBlanks(_, _)
SkipBlanks(s, i) ==
  IF i > Len(s) THEN Len(s) + 1
  ELSE IF CharAt(s, i) = " " THEN SkipBlanks(s, i + 1) ELSE i

\* s.split(/\s+/) from position i on (a token starts at i)
RECURSIVE SplitFrom(_, _)
SplitFrom(s, i) ==
  LET b == NextBlank(s, i)
      tok == SubSeq(s, i, b - 1)
  IN IF b > Len(s) THEN <<tok>>
     ELSE <<tok>> \o SplitFrom(s, SkipBlanks(s, b))

\* String.prototype.split(/\s+/): leading and trailing blanks give empty tokens
split(s) == SplitFrom(s, 1)

\* s.split('&')[0].trim(): the part before the first ampersand, blanks removed
RECURSIVE TrimRight(_)
TrimRight(s) ==
  IF Len(s) > 0 /\ CharAt(s, Len(s)) = " " THEN TrimRight(SubSeq(s, 1, Len(s) - 1)) ELSE s

RECURSIVE FirstAmp(_, _)
FirstAmp(s, i) ==
  IF i > Len(s) THEN Len(s) + 1
  ELSE IF CharAt(s, i) = "&" THEN i ELSE FirstAmp(s, i + 1)

BeforeAmp(s) ==
  LET t == SubSeq(s, 1, FirstAmp(s, 1) - 1)
  IN TrimRight(SubSeq(t, SkipBlanks(t, 1), Len(t)))

\* Array.prototype.slice(0, n)
slice(seq, n) == SubSeq(seq, 1, IF Len(seq) < n THEN Len(seq) ELSE n)

(***************************************************************************)
(* The rule-based parser of the current revision                           *)
(***************************************************************************)
EVENT_CATEGORIES ==
  << "Family & Kids", "Sports & Recreation", "Arts & Culture", "Music & Concerts",
     "Food & Dining", "Community", "Education", "Business & Networking",
     "Health & Wellness", "Seasonal & Holiday" >>

commonWords ==
  << "the", "a", "an", "and", "or", "but", "in", "on", "at", "to", "for", "what",
     "whats", "happening", "events", "activities", "things", "do", "near", "me",
     "lethbridge" >>

\* ParseDateRange with the "week" test ahead of the "weekend" test
ParseDateRangeWeekFirst(lowerQuery) ==
  IF includes(lowerQuery, "today") THEN "today"
  ELSE IF includes(lowerQuery, "tomorrow") THEN "tomorrow"
  ELSE IF includes(lowerQuery, "this week") \/ includes(lowerQuery, "week")
    THEN "this_week"
  ELSE IF includes(lowerQuery, "weekend") \/ includes(lowerQuery, "this weekend")
    THEN "this_weekend"
  ELSE IF includes(lowerQuery, "next week") THEN "next_week"
  ELSE "null"

\* the date phrase chain of parseQuery; "null" stands for JavaScript's null
ParseDateRange(lowerQuery) ==
  IF includes(lowerQuery, "today") THEN "today"
  ELSE IF includes(lowerQuery, "tomorrow") THEN "tomorrow"
  ELSE IF includes(lowerQuery, "weekend") \/ includes(lowerQuery, "this weekend")
    THEN "this_weekend"
  ELSE IF includes(lowerQuery, "this week") \/ includes(lowerQuery, "week")
    THEN "this_week"
  ELSE IF includes(lowerQuery, "next week") THEN "next_week"
  ELSE "null"

\* EVENT_CATEGORIES.forEach(...): the labels the query names, in list order
LabelCategories(lowerQuery) ==
  LET Hit(category) ==
        LET catLower == toLowerCase(category)
        IN includes(lowerQuery, catLower)
           \/ (includes(catLower, "&") /\ includes(lowerQuery, BeforeAmp(catLower)))
  IN SelectSeq(EVENT_CATEGORIES, Hit)

\* the three "special keywords" blocks: push the category if it is not there yet
PushUnique(cats, cat, hit) ==
  IF hit /\ ~arrIncludes(cats, cat) THEN Append(cats, cat) ELSE cats

ParseCategories(lowerQuery) ==
  LET c0 == LabelCategories(lowerQuery)
      c1 == PushUnique(c0, "Family & Kids",
                       includes(lowerQuery, "family") \/ includes(lowerQuery, "kids")
                         \/ includes(lowerQuery, "children"))
      c2 == PushUnique(c1, "Music & Concerts",
                       includes(lowerQuery, "music") \/ includes(lowerQuery, "concert")
                         \/ includes(lowerQuery, "live"))
  IN PushUnique(c2, "Food & Dining",
                includes(lowerQuery, "food") \/ includes(lowerQuery, "dining")
                  \/ includes(lowerQuery, "restaurant"))

\* ParseKeywords without the commonWords test
ParseKeywordsAnyWord(lowerQuery) ==
  LET Keep(word) == Len(word) > 2
  IN SelectSeq(split(lowerQuery), Keep)

ParseKeywords(lowerQuery) ==
  LET Keep(word) == Len(word) > 2 /\ ~arrIncludes(commonWords, word)
  IN SelectSeq(split(lowerQuery), Keep)

parseQuery(query) ==
  LET lowerQuery == toLowerCase(query)
  IN [ dateRange  |-> ParseDateRange(lowerQuery),
       isFree     |-> includes(lowerQuery, "free"),
       categories |-> ParseCategories(lowerQuery),
       keywords   |-> ParseKeywords(lowerQuery) ]

(***************************************************************************)
(* JSON values and the JavaScript operators applied to them                *)
(***************************************************************************)
\* null of a nullable column (start_date, age_min, age_max); instants and ages are >= 0
NULL == -1

Undef == [t |-> "undefined"]

JNull == [t |-> "null"]

JBool(b) == [t |-> "boolean", b |-> b]

JNum(n) == [t |-> "number", n |-> n]

JStr(s) == [t |-> "string", s |-> s]

\* an array of strings
JArr(a) == [t |-> "array", a |-> a]

\* an object: f maps the names of the properties it has to their values
JObj(f) == [t |-> "object", f |-> f]

\* reading a property of null or undefined raises a TypeError
Dereferenceable(v) == v.t \notin {"null", "undefined"}

\* v.name: undefined when v has no such property
Get(v, name) ==
  IF v.t = "object" /\ name \in DOMAIN v.f THEN v.f[name] ELSE Undef

\* ToBoolean
Truthy(v) ==
  CASE v.t = "undefined" -> FALSE
    [] v.t = "null"      -> FALSE
    [] v.t = "boolean"   -> v.b
    [] v.t = "number"    -> v.n # 0
    [] v.t = "string"    -> Len(v.s) > 0
    [] OTHER             -> TRUE

\* v.length > 0 (v?.length > 0 for the optional chain): false when v has no length
LengthPositive(v) ==
  CASE v.t = "array"  -> Len(v.a) > 0
    [] v.t = "string" -> Len(v.s) > 0
    [] OTHER          -> FALSE

\* v.some is a function only on arrays
HasSome(v) == v.t = "array"

\* ToNumber of a nullable column: null counts as 0
NumCol(x) == IF x = NULL THEN 0 ELSE x

\* a > b and a < b with b a JSON value: null is 0, anything not a number is NaN
ColGreater(x, v) ==
  CASE v.t = "number" -> NumCol(x) > v.n
    [] v.t = "null"   -> NumCol(x) > 0
    [] OTHER          -> FALSE

ColLess(x, v) ==
  CASE v.t = "number" -> NumCol(x) < v.n
    [] v.t = "null"   -> NumCol(x) < 0
    [] OTHER          -> FALSE

(***************************************************************************)
(* Dates                                                                   *)
(***************************************************************************)
DaySeconds == 24 * 3600

\* date-fns addDays on instants (no daylight saving in UTC)
addDays(t, n) == t + n * DaySeconds

\* Date.prototype.getDay: 0 is Sunday
getDay(t) == (t \div DaySeconds) % 7

\* new Date(y, m, d) of an instant: its midnight
startOfDay(t) == t - (t % DaySeconds)

\* date-fns isWithinInterval: both ends inclusive
isWithinInterval(d, start, end) == start <= d /\ d <= end

(***************************************************************************)
(* The backend queries (PostgREST over the events and personal_listings    *)
(* tables).  A table is the sequence of its rows in insertion order.       *)
(***************************************************************************)
\* a < b in ORDER BY start_date ASC: NULLs sort last
DateBefore(a, b) == a # NULL /\ (b = NULL \/ a < b)

\* rows with row r inserted behind every row that does not sort after it
RECURSIVE InsertByStartDate(_, _)
InsertByStartDate(sorted, r) ==
  IF Len(sorted) = 0 THEN <<r>>
  ELSE IF DateBefore(r.start_date, sorted[1].start_date) THEN <<r>> \o sorted
  ELSE <<sorted[1]>> \o InsertByStartDate(Tail(sorted), r)

\* .order('start_date', { ascending: true })
RECURSIVE OrderByStartDate(_)
OrderByStartDate(rows) ==
  IF Len(rows) = 0 THEN <<>>
  ELSE InsertByStartDate(OrderByStartDate(SubSeq(rows, 1, Len(rows) - 1)), rows[Len(rows)])

\* the dateRange switch of eventService.searchEvents (current revision);
\* a comparison with a NULL start_date selects nothing
DateRangeSelects(dateRange, start_date, now) ==
  LET today == startOfDay(now)
  IN CASE dateRange = "today" ->
            start_date # NULL /\ start_date >= today /\ start_date < addDays(today, 1)
       [] dateRange = "tomorrow" ->
            start_date # NULL /\ start_date >= addDays(today, 1)
              /\ start_date < addDays(today, 2)
       [] dateRange = "this_week" ->
            LET weekEnd == addDays(today, 7 - getDay(today))
            IN start_date # NULL /\ start_date >= today /\ start_date <= weekEnd
       [] dateRange = "this_weekend" ->
            LET dayOfWeek == getDay(today)
                daysUntilFriday == IF dayOfWeek <= 5 THEN 5 - dayOfWeek ELSE 0
                friday == addDays(today, daysUntilFriday) + 18 * 3600
                sunday == addDays(startOfDay(friday), 2) + (DaySeconds - 1)
            IN start_date # NULL /\ start_date >= friday /\ start_date <= sunday
       [] OTHER -> TRUE

\* eventService.searchEvents(searchParams) of the current revision, the query
\* having succeeded: approved rows that pass the date and cost filters, by date
searchEventsCurrent(table, searchParams, now) ==
  LET Selected(row) ==
        /\ row.is_approved
        /\ (searchParams.dateRange # "null"
              => DateRangeSelects(searchParams.dateRange, row.start_date, now))
        /\ (searchParams.isFree => row.is_free)
  IN OrderByStartDate(SelectSeq(table, Selected))

\* eventService.searchEvents(params) of the legacy revision, the query having
\* succeeded: approved rows that start at or after now, by date; params is ignored
searchEventsLegacy(table, now) ==
  LET Selected(row) ==
        row.is_approved /\ row.start_date # NULL /\ row.start_date >= now
  IN OrderByStartDate(SelectSeq(table, Selected))

\* personalListingService.getListings(), the query having succeeded: active and
\* approved rows; the table is kept newest first (ORDER BY created_at DESC)
getListings(table) ==
  LET Selected(row) == row.is_active /\ row.moderation_status = "approved"
  IN SelectSeq(table, Selected)

(***************************************************************************)
(* Filtering in the current revision (aiService.searchEvents, openai.js)   *)
(***************************************************************************)
\* `${x.title} ${x.description}`.toLowerCase()
SearchTextCurrent(x) == toLowerCase(x.title \o " " \o x.description)

\* filters.keywords.some(keyword => searchText.includes(keyword))
SomeKeyword(searchText, keywords) ==
  \E i \in 1..Len(keywords) : includes(searchText, keywords[i])

FilterEventsCurrent(events, filters) ==
  LET InCategory(event) ==
        Len(filters.categories) > 0 => arrIncludes(filters.categories, event.category)
      HasKeyword(event) ==
        Len(filters.keywords) > 0 => SomeKeyword(SearchTextCurrent(event), filters.keywords)
  IN SelectSeq(SelectSeq(events, InCategory), HasKeyword)

FilterListingsCurrent(listings, filters) ==
  LET HasKeyword(listing) ==
        Len(filters.keywords) > 0
          => SomeKeyword(SearchTextCurrent(listing), filters.keywords)
  IN SelectSeq(listings, HasKeyword)

(***************************************************************************)
(* Filtering in the legacy revision (filterEvents, filterPersonalListings) *)
(* The callback of Array.filter ends in "keep", "drop" or "throw".         *)
(***************************************************************************)
\* DateRejects without the start_date guard (filterEvents of part_003): parseISO
\* of null is an invalid date, which is within no interval
DateRejectsUnguarded(filters, start_date, now) ==
  LET dateRange == Get(filters, "dateRange")
  IN /\ Truthy(dateRange)
     /\ dateRange.t = "string"
     /\ CASE dateRange.s = "today" ->
               ~isWithinInterval(start_date, now, addDays(now, 1))
          [] dateRange.s = "this_weekend" ->
               LET weekendStart == addDays(now, (6 - getDay(now)) % 7)
                   weekendEnd == addDays(weekendStart, 2)
               IN ~isWithinInterval(start_date, weekendStart, weekendEnd)
          [] dateRange.s = "next_week" ->
               ~isWithinInterval(start_date, now, addDays(now, 7))
          [] OTHER -> FALSE

\* the date block shared by both filters: TRUE when it returns false
DateRejects(filters, start_date, now) ==
  LET dateRange == Get(filters, "dateRange")
  IN /\ Truthy(dateRange)
     /\ start_date # NULL
     /\ dateRange.t = "string"
     /\ CASE dateRange.s = "today" ->
               ~isWithinInterval(start_date, now, addDays(now, 1))
          [] dateRange.s = "this_weekend" ->
               LET weekendStart == addDays(now, (6 - getDay(now)) % 7)
                   weekendEnd == addDays(weekendStart, 2)
               IN ~isWithinInterval(start_date, weekendStart, weekendEnd)
          [] dateRange.s = "next_week" ->
               ~isWithinInterval(start_date, now, addDays(now, 7))
          [] OTHER -> FALSE

\* filters.eventCategories.includes(event.category): Array or String includes
CategoryRejects(filters, category) ==
  LET eventCategories == Get(filters, "eventCategories")
  IN /\ Truthy(eventCategories)
     /\ LengthPositive(eventCategories)
     /\ IF eventCategories.t = "array"
          THEN ~arrIncludes(eventCategories.a, category)
          ELSE ~includes(eventCategories.s, category)

\* AgeRejects with the bounds of the band left out of it (>= and <=)
AgeRejectsOpenBand(filters, event) ==
  LET ageRange == Get(filters, "ageRange")
  IN /\ ageRange # Undef
     /\ ageRange.t = "number"
     /\ (NumCol(event.age_min) >= ageRange.n \/ NumCol(event.age_max) <= ageRange.n)

\* event.age_min > filters.ageRange || event.age_max < filters.ageRange
AgeRejects(filters, event) ==
  LET ageRange == Get(filters, "ageRange")
  IN /\ ageRange # Undef
     /\ (ColGreater(event.age_min, ageRange) \/ ColLess(event.age_max, ageRange))

PriceRejects(filters, event) ==
  \/ (Truthy(Get(filters, "isFree")) /\ ~event.is_free)
  \/ (Get(filters, "maxPrice") # Undef /\ ColGreater(event.cost, Get(filters, "maxPrice")))

\* `${x.title} ${x.description || ''}`.toLowerCase()
SearchTextLegacy(x) == toLowerCase(x.title \o " " \o x.description)

KeywordsActive(filters) ==
  Truthy(Get(filters, "keywords")) /\ LengthPositive(Get(filters, "keywords"))

\* filters.keywords.some(keyword => searchText.includes(keyword.toLowerCase()))
KeywordsMatch(filters, x) ==
  LET keywords == Get(filters, "keywords").a
  IN \E i \in 1..Len(keywords) : includes(SearchTextLegacy(x), toLowerCase(keywords[i]))

\* EventVerdict with the keyword test first and a keyword match keeping the event
EventVerdictKeywordFirst(event, filters, now) ==
  IF KeywordsActive(filters) /\ HasSome(Get(filters, "keywords"))
       /\ KeywordsMatch(filters, event) THEN "keep"
  ELSE IF DateRejects(filters, event.start_date, now) THEN "drop"
  ELSE IF CategoryRejects(filters, event.category) THEN "drop"
  ELSE IF AgeRejects(filters, event) THEN "drop"
  ELSE IF PriceRejects(filters, event) THEN "drop"
  ELSE IF ~KeywordsActive(filters) THEN "keep"
  ELSE IF ~HasSome(Get(filters, "keywords")) THEN "throw"
  ELSE "drop"

EventVerdict(event, filters, now) ==
  IF DateRejects(filters, event.start_date, now) THEN "drop"
  ELSE IF CategoryRejects(filters, event.category) THEN "drop"
  ELSE IF AgeRejects(filters, event) THEN "drop"
  ELSE IF PriceRejects(filters, event) THEN "drop"
  ELSE IF ~KeywordsActive(filters) THEN "keep"
  ELSE IF ~HasSome(Get(filters, "keywords")) THEN "throw"
  ELSE IF KeywordsMatch(filters, event) THEN "keep" ELSE "drop"

\* filters.personalListingTypes.some(type => listingCategory.includes(type.toLowerCase()))
ListingTypesActive(filters) ==
  Truthy(Get(filters, "personalListingTypes"))
    /\ LengthPositive(Get(filters, "personalListingTypes"))

ListingTypesMatch(filters, listing) ==
  LET types == Get(filters, "personalListingTypes").a
      listingCategory == toLowerCase(listing.category)
  IN \E i \in 1..Len(types) : includes(listingCategory, toLowerCase(types[i]))

ListingVerdict(listing, filters, now) ==
  IF DateRejects(filters, listing.start_date, now) THEN "drop"
  ELSE IF ListingTypesActive(filters) /\ ~HasSome(Get(filters, "personalListingTypes"))
    THEN "throw"
  ELSE IF ListingTypesActive(filters) /\ ~ListingTypesMatch(filters, listing) THEN "drop"
  ELSE IF ~KeywordsActive(filters) THEN "keep"
  ELSE IF ~HasSome(Get(filters, "keywords")) THEN "throw"
  ELSE IF KeywordsMatch(filters, listing) THEN "keep" ELSE "drop"

\* Array.filter with a callback that may throw: the first throw ends the call
\* verdicts[i] is the callback's verdict on items[i]
FilterResult(items, verdicts) ==
  IF \E i \in 1..Len(items) : verdicts[i] = "throw"
    THEN [threw |-> TRUE, items |-> <<>>]
    ELSE LET judged == [i \in 1..Len(items) |-> <<items[i], verdicts[i]>>]
             Kept(j) == j[2] = "keep"
             kept == SelectSeq(judged, Kept)
         IN [threw |-> FALSE, items |-> [i \in 1..Len(kept) |-> kept[i][1]]]

filterEvents(events, filters, now) ==
  FilterResult(events, [i \in 1..Len(events) |-> EventVerdict(events[i], filters, now)])

filterPersonalListings(listings, filters, now) ==
  FilterResult(listings,
               [i \in 1..Len(listings) |-> ListingVerdict(listings[i], filters, now)])

(***************************************************************************)
(* Response texts                                                          *)
(***************************************************************************)
ApologyCurrent ==
  "I couldn't find any events or activities matching your search. Try broadening your criteria or check back later for new events!"

ApologyLegacy ==
  "I couldn't find any events or activities matching your criteria. Try broadening your search or checking back later for new listings!"

DegradedCurrent ==
  "I'm having trouble searching for events right now. Please try again or browse events directly."

DegradedLegacy ==
  "I'm having trouble searching for events right now. Please try again later."

\* a message that is one fixed text
Fixed(text) == [kind |-> "fixed", text |-> text]

Ids(items) == [i \in 1..Len(items) |-> items[i].id]

\* generateResponse of the current revision: the apology, or the template text,
\* given by the parts it is assembled from
generateResponse(evs, listings, filters) ==
  LET totalResults == Len(evs) + Len(listings)
  IN IF totalResults = 0 THEN Fixed(ApologyCurrent)
     ELSE [ kind     |-> "template",
            opening  |-> IF filters.dateRange \in {"today", "this_weekend", "this_week"}
                           THEN filters.dateRange ELSE "found",
            total    |-> totalResults,
            free     |-> filters.isFree,
            focus    |-> filters.categories,
            events   |-> Ids(slice(evs, 3)),
            more     |-> IF Len(evs) > 3 THEN Len(evs) - 3 ELSE 0,
            listings |-> Ids(slice(listings, 2)) ]

\* the catch of generateCombinedResponse: the template around contentDescription
FallbackResponse(evs, listings) ==
  [ kind     |-> "template",
    total    |-> Len(evs) + Len(listings),
    events   |-> Ids(slice(evs, 3)),
    listings |-> Ids(slice(listings, 3)) ]

\* the text the language-generation dependency returned
AssistedResponse == [kind |-> "assisted"]

(***************************************************************************)
(* The assisted parser of the legacy revision                              *)
(***************************************************************************)
\* the catch of parseUserQuery: the words of the query longer than two characters
FallbackFilters(query) ==
  LET Long(word) == Len(word) > 2
  IN JObj([ includeBusinessEvents  |-> JBool(TRUE),
            includePersonalListings |-> JBool(TRUE),
            keywords |-> JArr(SelectSeq(split(toLowerCase(query)), Long)) ])

\* parseUserQuery: reply is what callOpenAI and JSON.parse made of the request:
\* "raise" (transport error or a status that is not ok), "text" (a reply that
\* JSON.parse rejects) or "json" (a reply JSON.parse turns into the value v)
parseUserQuery(query, reply) ==
  IF reply.kind = "json" THEN reply.v ELSE FallbackFilters(query)

\* filters.includeBusinessEvents !== false
WantsEvents(filters) == Get(filters, "includeBusinessEvents") # JBool(FALSE)

\* filters.includePersonalListings || filters.personalListingTypes?.length > 0
\*   || filters.keywords?.length > 0
WantsListings(filters) ==
  \/ Truthy(Get(filters, "includePersonalListings"))
  \/ LengthPositive(Get(filters, "personalListingTypes"))
  \/ LengthPositive(Get(filters, "keywords"))

\* the user preferences block: keep the preferred categories when there are any
ApplyPreferences(evs, prefs) ==
  LET Preferred(event) == arrIncludes(prefs.preferred_categories, event.category)
  IN IF ~prefs.isNull /\ Len(prefs.preferred_categories) > 0
       THEN SelectSeq(evs, Preferred) ELSE evs

(***************************************************************************)
(* Inputs: instants, table contents, queries, replies of the dependencies  *)
(***************************************************************************)
\* the largest events table and the largest personal_listings table
MaxEvents == 11

MaxListings == 6

\* hour h of day d, day 0 being a Sunday
At(d, h) == d * DaySeconds + h * 3600

\* a Wednesday 10:00 and the Saturday 10:00 of the same week
Nows == {At(3, 10), At(6, 10)}

NoUser == "null"

Users == {NoUser, "u1"}

Event(id, title, description, category, start_date, is_free, cost, age_min, age_max, is_approved) ==
  [ id |-> id, title |-> title, description |-> description, category |-> category,
    start_date |-> start_date, is_free |-> is_free, cost |-> cost, age_min |-> age_min,
    age_max |-> age_max, is_approved |-> is_approved ]

\* events of several days, costs, categories and age bands, in insertion order
EventPool ==
  << Event(1, "Art Show", "gallery opening", "Arts & Culture", At(33, 10), FALSE, 50, 0, 99, TRUE),
     Event(2, "Family Fun Day", "free crafts", "Family & Kids", At(3, 12), TRUE, 0, 0, 99, TRUE),
     Event(3, "Garage Meetup", "community swap", "Community", At(7, 20), FALSE, 0, 0, 99, TRUE),
     Event(4, "Live Jazz", "concert night", "Music & Concerts", At(5, 19), FALSE, 20, 18, 99, TRUE),
     Event(5, "Kids Craft", "family weekend", "Family & Kids", At(6, 14), TRUE, 0, 3, 12, TRUE),
     Event(6, "Food Fair", "dining out", "Food & Dining", At(9, 10), FALSE, 5, 0, 99, TRUE),
     Event(7, "Morning Yoga", "free class", "Health & Wellness", At(1, 9), TRUE, 0, 0, 99, TRUE),
     Event(8, "Secret Gig", "live music", "Music & Concerts", At(6, 20), FALSE, 10, 0, 99, FALSE),
     Event(9, "Puppet Show", "story time", "Family & Kids", At(7, 11), TRUE, 0, 0, 99, TRUE),
     Event(10, "Teen Night", "board games", "Community", At(4, 18), FALSE, 5, 13, 17, TRUE) >>

\* n approved events of the coming week, the latest inserted first
EventCrowd(n) ==
  [ i \in 1..n |->
      Event(100 + i, "Street Market", "food and music", "Community",
            At(8, 8) + (n - i) * 3600, i % 2 = 0, IF i % 2 = 0 THEN 0 ELSE 5, 0, 99, TRUE) ]

EventTables == {<<>>, EventPool, EventCrowd(MaxEvents)}

Listing(id, title, description, category, start_date, price, is_active, moderation_status) ==
  [ id |-> id, title |-> title, description |-> description, category |-> category,
    start_date |-> start_date, price |-> price, is_active |-> is_active,
    moderation_status |-> moderation_status ]

\* a listing is shown as free when its price is 0
ListingIsFree(listing) == listing.price = 0

\* listings with and without a date, newest first
ListingPool ==
  << Listing(1, "Garage Sale", "furniture and toys", "Garage Sale", At(6, 9), 0, TRUE, "approved"),
     Listing(2, "Book Club", "weekly reading", "Book Club", NULL, 0, TRUE, "approved"),
     Listing(3, "Moving Sale", "free stuff", "Moving Sale", At(20, 9), 0, TRUE, "approved"),
     Listing(4, "Family Meetup", "kids playdate", "Meetup", At(3, 15), 15, TRUE, "approved"),
     Listing(5, "Estate Sale", "antiques", "Estate Sale", NULL, 40, TRUE, "pending"),
     Listing(6, "Study Group", "math", "Study Group", NULL, 0, FALSE, "approved") >>

ListingCrowd(n) ==
  [ i \in 1..n |->
      Listing(100 + i, "Yard Sale", "music and food", "Garage Sale",
              IF i % 2 = 0 THEN NULL ELSE At(8, 9), 0, TRUE, "approved") ]

ListingTables == {<<>>, ListingPool, ListingCrowd(MaxListings)}

Queries ==
  { "", "what to do", "free family activities this weekend", "Live music today",
    "garage sale", "FREE food next week" }

\* what getPreferences finds: an error other than "no rows" (the default
\* preferences are returned), no row (data is null), or the stored row
PreferenceOutcomes ==
  { [isNull |-> FALSE, preferred_categories |-> <<>>],
    [isNull |-> TRUE,  preferred_categories |-> <<>>],
    [isNull |-> FALSE, preferred_categories |-> <<"Music & Concerts", "Community">>] }

NoPreferences == [isNull |-> TRUE, preferred_categories |-> <<>>]

EmptyObject == JObj([x \in {} |-> Undef])

\* replies of the text-understanding dependency, as JSON.parse reads them
JsonReplies ==
  { JNull,
    JArr(<<>>),
    JNum(5),
    EmptyObject,
    JObj([keywords |-> JStr("garage")]),
    JObj([dateRange |-> JStr("this_weekend"), eventCategories |-> JArr(<<"Family & Kids">>),
          includeBusinessEvents |-> JBool(TRUE), includePersonalListings |-> JBool(TRUE),
          isFree |-> JBool(TRUE)]),
    JObj([dateRange |-> JStr("today"), includePersonalListings |-> JBool(TRUE),
          keywords |-> JArr(<<"Family", "sale">>)]),
    JObj([includeBusinessEvents |-> JBool(FALSE),
          personalListingTypes |-> JArr(<<"Garage Sale">>)]),
    JObj([ageRange |-> JNum(5), maxPrice |-> JNum(10)]),
    JObj([isFree |-> JBool(TRUE), maxPrice |-> JNum(0)]),
    JObj([isFree |-> JBool(TRUE), maxPrice |-> JNum(20),
          includePersonalListings |-> JBool(TRUE)]),
    JObj([dateRange |-> JStr("this_week"), includePersonalListings |-> JBool(TRUE)]),
    JObj([dateRange |-> JStr("next_week"), eventCategories |-> JArr(<<>>)]),
    JObj([dateRange |-> JStr("next_month"), eventCategories |-> JArr(<<"Parties">>)]) }

ParserReplies ==
  {[kind |-> "raise"], [kind |-> "text"]} \cup {[kind |-> "json", v |-> v] : v \in JsonReplies}

(***************************************************************************)
(* aiService.searchEvents as a state machine: one step per await           *)
(***************************************************************************)
VARIABLES
  rev,               \* "current" or "legacy": the revision that runs
  now,               \* new Date() of this search
  events,            \* the events table
  personal_listings, \* the personal_listings table, newest first
  pc,                \* where the search stands
  query,             \* searchEvents(query, userId)
  userId,
  userPreferences,   \* what getPreferences returned
  filters,           \* what the parser returned
  matchingEvents,
  matchingListings,
  response,          \* the message
  composeCalls,      \* calls of callOpenAI made by generateCombinedResponse
  trackQueue,        \* topEventIds not yet passed to trackInteraction
  tracked,           \* the trackInteraction calls made, in order
  result,            \* what searchEvents returned
  parseReply,        \* how the text-understanding dependency answered
  eventsFetch,       \* "none", "ok" or "failed": how the events query ended
  listingsFetch,     \* the same for the personal_listings query
  composeReply,      \* the same for callOpenAI of generateCombinedResponse
  chat               \* the chat's handleSubmit: "idle", "loading" (setLoading(true)),
                     \* "tracking" (awaiting its trackInteraction), "shown"
                     \* (setLoading(false)); it passes the service any text

\* the listing limit of one user (profiles and personal_listings of supabase)
VARIABLES
  user_listings,     \* the ids of the user's rows of personal_listings
  profile,           \* the user's row of profiles: active_listings_count and
                     \* max_listings_allowed
  calls,             \* per caller: the createListing or deleteListing call it has
                     \* in flight and the await it stands at
  made               \* the number of calls started

vars ==
  << rev, now, events, personal_listings, pc, query, userId, userPreferences, filters,
     matchingEvents, matchingListings, response, composeCalls, trackQueue, tracked,
     result, parseReply, eventsFetch, listingsFetch, composeReply, chat,
     user_listings, profile, calls, made >>

search ==
  << rev, now, events, personal_listings, pc, query, userId, userPreferences, filters,
     matchingEvents, matchingListings, response, composeCalls, trackQueue, tracked,
     result, parseReply, eventsFetch, listingsFetch, composeReply, chat >>

limits == << user_listings, profile, calls, made >>

world == << rev, now, events, personal_listings >>

replies == << parseReply, eventsFetch, listingsFetch, composeReply >>

NoReply == [kind |-> "none"]

Outcome(ok) == IF ok THEN "ok" ELSE "failed"

NoResult == [pending |-> TRUE]

\* events.slice(0, 10) and listings.slice(0, 5) of the returned result
EventLimit == 10

ListingLimit == 5

\* the greatest max_listings_allowed, and the calls one behaviour starts
MaxAllowed == 2

MaxCalls == 4

\* two sessions of the user (two tabs, a double submit)
Callers == {"tab1", "tab2"}

NoCall == [op |-> "none", at |-> "idle", id |-> 0]

\* no createListing or deleteListing call is made
ListingsIdle ==
  /\ user_listings = {}
  /\ profile = [active_listings_count |-> 0, max_listings_allowed |-> MaxAllowed]
  /\ calls = [c \in Callers |-> NoCall]
  /\ made = 0

InitSearch ==
  /\ rev \in {"current", "legacy"}
  /\ now \in Nows
  /\ events \in EventTables
  /\ personal_listings \in ListingTables
  /\ pc = "idle"
  /\ query = ""
  /\ userId = NoUser
  /\ userPreferences = NoPreferences
  /\ filters = Undef
  /\ matchingEvents = <<>>
  /\ matchingListings = <<>>
  /\ response = Fixed("")
  /\ composeCalls = 0
  /\ trackQueue = <<>>
  /\ tracked = <<>>
  /\ result = NoResult
  /\ parseReply = NoReply
  /\ eventsFetch = "none"
  /\ listingsFetch = "none"
  /\ composeReply = "none"
  /\ chat = "idle"

Init == InitSearch /\ ListingsIdle

(* ---------------------------- current revision ------------------------ *)
\* searchEvents up to its first await: parseQuery, then eventService.searchEvents
SearchCurrent(q, u) ==
  /\ pc = "idle" /\ rev = "current"
  /\ query' = q
  /\ userId' = u
  /\ filters' = parseQuery(q)
  /\ pc' = "fetchEvents"
  /\ chat' = "loading"
  /\ UNCHANGED << world, replies, userPreferences, matchingEvents, matchingListings,
                  response, composeCalls, trackQueue, tracked, result >>
  /\ UNCHANGED limits

\* eventService.searchEvents settles (it returns [] when the query failed), the
\* category and keyword filters run, getListings is called
EventsFetchedCurrent(ok) ==
  /\ pc = "fetchEvents" /\ rev = "current"
  /\ LET searchParams == [dateRange |-> filters.dateRange, isFree |-> filters.isFree]
         fetched == IF ok THEN searchEventsCurrent(events, searchParams, now) ELSE <<>>
     IN matchingEvents' = FilterEventsCurrent(fetched, filters)
  /\ pc' = "fetchListings"
  /\ eventsFetch' = Outcome(ok)
  /\ UNCHANGED << world, query, userId, userPreferences, filters, matchingListings,
                  response, composeCalls, trackQueue, tracked, result, parseReply,
                  listingsFetch, composeReply, chat >>
  /\ UNCHANGED limits

\* getListings settles (it returns [] when the query failed), the keyword filter
\* runs, the response is generated and the result returned; handleSubmit shows
\* it and, for a user and a result with events, calls trackInteraction
ListingsFetchedCurrent(ok) ==
  /\ pc = "fetchListings" /\ rev = "current"
  /\ LET fetched == IF ok THEN getListings(personal_listings) ELSE <<>>
         listings == FilterListingsCurrent(fetched, filters)
         message == generateResponse(matchingEvents, listings, filters)
     IN /\ matchingListings' = listings
        /\ response' = message
        /\ result' = [ message          |-> message,
                       events           |-> slice(matchingEvents, EventLimit),
                       personalListings |-> slice(listings, ListingLimit),
                       filters          |-> filters,
                       totalResults     |-> Len(matchingEvents) + Len(listings) ]
  /\ pc' = "done"
  /\ chat' = IF userId # NoUser /\ Len(matchingEvents) > 0 THEN "tracking" ELSE "shown"
  /\ listingsFetch' = Outcome(ok)
  /\ UNCHANGED << world, query, userId, userPreferences, filters, matchingEvents,
                  composeCalls, trackQueue, tracked, parseReply, eventsFetch,
                  composeReply >>
  /\ UNCHANGED limits

\* trackInteraction of handleSubmit settles (its errors are swallowed); the
\* finally block runs setLoading(false)
PageTrackReturned(ok) ==
  /\ chat = "tracking" /\ rev = "current"
  /\ tracked' = Append(tracked, [ userId |-> userId, eventId |-> result.events[1].id,
                                  interactionType |-> "view", stored |-> ok ])
  /\ chat' = "shown"
  /\ UNCHANGED << world, replies, pc, query, userId, userPreferences, filters,
                  matchingEvents, matchingListings, response, composeCalls, trackQueue,
                  result >>
  /\ UNCHANGED limits

(* ----------------------------- legacy revision ------------------------ *)
\* the locals an await of the legacy searchEvents leaves behind
Locals ==
  [ pc |-> pc, matchingEvents |-> matchingEvents, matchingListings |-> matchingListings,
    response |-> response, composeCalls |-> composeCalls, trackQueue |-> trackQueue,
    result |-> result ]

Install(o) ==
  /\ pc' = o.pc
  /\ matchingEvents' = o.matchingEvents
  /\ matchingListings' = o.matchingListings
  /\ response' = o.response
  /\ composeCalls' = o.composeCalls
  /\ trackQueue' = o.trackQueue
  /\ result' = o.result
  /\ chat' = IF o.pc \in {"done", "caught"} THEN "shown" ELSE chat

\* the return statement of the try block
Returned(b, f) ==
  [ b EXCEPT !.pc = "done",
             !.result = [ message          |-> b.response,
                          events           |-> b.matchingEvents,
                          personalListings |-> b.matchingListings,
                          filters          |-> f,
                          totalResults     |-> Len(b.matchingEvents)
                                                 + Len(b.matchingListings) ] ]

\* the catch block of searchEvents
Degraded(b) ==
  [ b EXCEPT !.pc = "caught",
             !.result = [ message          |-> Fixed(DegradedLegacy),
                          events           |-> <<>>,
                          personalListings |-> <<>>,
                          error            |-> "error.message" ] ]

\* Responded without the early return of generateCombinedResponse
RespondedAlwaysComposes(b, f, evs0, listings) ==
  LET evs == ApplyPreferences(evs0, userPreferences)
  IN [ b EXCEPT !.matchingEvents = evs, !.matchingListings = listings,
                !.pc = "compose", !.composeCalls = @ + 1 ]

\* from "Apply user preferences" to the first await behind it: the preference
\* filter, then generateCombinedResponse, which returns the apology at once when
\* nothing matched (no tracking follows) and calls callOpenAI otherwise
Responded(b, f, evs0, listings) ==
  LET evs == ApplyPreferences(evs0, userPreferences)
      c == [b EXCEPT !.matchingEvents = evs, !.matchingListings = listings]
  IN IF Len(evs) + Len(listings) = 0
       THEN Returned([c EXCEPT !.response = Fixed(ApologyLegacy)], f)
       ELSE [c EXCEPT !.pc = "compose", !.composeCalls = @ + 1]

\* from the end of the events block to the next await
AfterEvents(b, f, evs) ==
  IF WantsListings(f)
    THEN [b EXCEPT !.matchingEvents = evs, !.pc = "fetchListings"]
    ELSE Responded(b, f, evs, <<>>)

\* from the parser's return to the next await; reading a property of a reply
\* that is null raises a TypeError
AfterParse(b, f) ==
  IF ~Dereferenceable(f) THEN Degraded(b)
  ELSE IF WantsEvents(f) THEN [b EXCEPT !.pc = "fetchEvents"]
  ELSE AfterEvents(b, f, <<>>)

\* searchEvents up to its first await: getPreferences when a user is given,
\* parseUserQuery otherwise
SearchLegacy(q, u) ==
  /\ pc = "idle" /\ rev = "legacy"
  /\ query' = q
  /\ userId' = u
  /\ pc' = IF u # NoUser THEN "prefs" ELSE "parse"
  /\ chat' = "loading"
  /\ UNCHANGED << world, replies, userPreferences, filters, matchingEvents,
                  matchingListings, response, composeCalls, trackQueue, tracked, result >>
  /\ UNCHANGED limits

\* getPreferences settles; it does not reject
PreferencesLoaded(prefs) ==
  /\ pc = "prefs" /\ rev = "legacy"
  /\ userPreferences' = prefs
  /\ pc' = "parse"
  /\ UNCHANGED << world, replies, query, userId, filters, matchingEvents,
                  matchingListings, response, composeCalls, trackQueue, tracked, result,
                  chat >>
  /\ UNCHANGED limits

\* parseUserQuery settles with the reply's value or with the fallback
ParseReturned(reply) ==
  /\ pc = "parse" /\ rev = "legacy"
  /\ LET f == parseUserQuery(query, reply)
     IN /\ filters' = f
        /\ Install(AfterParse(Locals, f))
  /\ parseReply' = reply
  /\ UNCHANGED << world, query, userId, userPreferences, tracked, eventsFetch,
                  listingsFetch, composeReply >>
  /\ UNCHANGED limits

\* eventService.searchEvents({}) settles: it rejects when the query failed;
\* filterEvents runs on what it returned
EventsFetchedLegacy(ok) ==
  /\ pc = "fetchEvents" /\ rev = "legacy"
  /\ LET filtered == filterEvents(searchEventsLegacy(events, now), filters, now)
     IN Install(IF ~ok \/ filtered.threw THEN Degraded(Locals)
                ELSE AfterEvents(Locals, filters, filtered.items))
  /\ eventsFetch' = Outcome(ok)
  /\ UNCHANGED << world, query, userId, userPreferences, filters, tracked, parseReply,
                  listingsFetch, composeReply >>
  /\ UNCHANGED limits

\* getListings settles; a rejection and a throw of filterPersonalListings are
\* caught and leave matchingListings empty
ListingsFetchedLegacy(ok) ==
  /\ pc = "fetchListings" /\ rev = "legacy"
  /\ LET filtered == filterPersonalListings(getListings(personal_listings), filters, now)
         listings == IF ~ok \/ filtered.threw THEN <<>> ELSE filtered.items
     IN Install(Responded(Locals, filters, matchingEvents, listings))
  /\ listingsFetch' = Outcome(ok)
  /\ UNCHANGED << world, query, userId, userPreferences, filters, tracked, parseReply,
                  eventsFetch, composeReply >>
  /\ UNCHANGED limits

\* ComposeReturned with no catch in generateCombinedResponse: a failure of
\* callOpenAI reaches the catch block of searchEvents
ComposeReturnedUncaught(ok) ==
  /\ pc = "compose" /\ rev = "legacy"
  /\ LET topEventIds == Ids(slice(matchingEvents, 3))
         b == [Locals EXCEPT !.response = AssistedResponse]
     IN Install(IF ~ok THEN Degraded(Locals)
                ELSE IF userId # NoUser /\ Len(topEventIds) > 0
                  THEN [b EXCEPT !.pc = "track", !.trackQueue = topEventIds]
                  ELSE Returned(b, filters))
  /\ composeReply' = Outcome(ok)
  /\ UNCHANGED << world, parseReply, eventsFetch, listingsFetch, query, userId,
                  userPreferences, filters, tracked >>
  /\ UNCHANGED limits

\* generateCombinedResponse settles: the text of callOpenAI, or the template of
\* its catch block; then the tracking loop or the return statement
ComposeReturned(ok) ==
  /\ pc = "compose" /\ rev = "legacy"
  /\ LET message == IF ok THEN AssistedResponse
                    ELSE FallbackResponse(matchingEvents, matchingListings)
         topEventIds == Ids(slice(matchingEvents, 3))
         b == [Locals EXCEPT !.response = message]
     IN Install(IF userId # NoUser /\ Len(topEventIds) > 0
                  THEN [b EXCEPT !.pc = "track", !.trackQueue = topEventIds]
                  ELSE Returned(b, filters))
  /\ composeReply' = Outcome(ok)
  /\ UNCHANGED << world, parseReply, eventsFetch, listingsFetch, query, userId,
                  userPreferences, filters, tracked >>
  /\ UNCHANGED limits

\* one trackInteraction call settles; its errors are swallowed
TrackReturned(ok) ==
  /\ pc = "track" /\ rev = "legacy"
  /\ tracked' = Append(tracked, [ userId |-> userId, eventId |-> Head(trackQueue),
                                  interactionType |-> "view", stored |-> ok ])
  /\ LET b == [Locals EXCEPT !.trackQueue = Tail(trackQueue)]
     IN Install(IF Len(b.trackQueue) > 0 THEN b ELSE Returned(b, filters))
  /\ UNCHANGED << world, replies, query, userId, userPreferences, filters >>
  /\ UNCHANGED limits

(* ------------------------- the parser on its own ---------------------- *)
\* the longest query, in words
MaxWords == 3

\* date phrases, stopwords, a short word, "free" and a category synonym
Vocabulary ==
  <<"today", "tomorrow", "Weekend", "week", "next", "the", "go", "whats", "free", "kids">>

RECURSIVE JoinWords(_)
JoinWords(ws) ==
  IF Len(ws) = 0 THEN ""
  ELSE IF Len(ws) = 1 THEN ws[1]
  ELSE ws[1] \o " " \o JoinWords(Tail(ws))

\* the texts of at most n words of the vocabulary
Texts(n) ==
  {JoinWords([i \in 1..Len(f) |-> Vocabulary[f[i]]]) :
     f \in UNION {[1..k -> 1..Len(Vocabulary)] : k \in 0..n}}

\* parseQuery(q) is called on a text, or once more on the text just parsed
ParseText(q) ==
  /\ pc = "idle" /\ rev = "current"
  /\ filters = Undef \/ q = query
  /\ query' = q
  /\ filters' = parseQuery(q)
  /\ UNCHANGED << world, replies, pc, userId, userPreferences, matchingEvents,
                  matchingListings, response, composeCalls, trackQueue, tracked, result,
                  chat >>
  /\ UNCHANGED limits

InitParse ==
  /\ Init
  /\ rev = "current" /\ now = At(3, 10) /\ events = <<>> /\ personal_listings = <<>>

NextParse ==
  \/ filters = Undef /\ \E q \in Texts(MaxWords) : ParseText(q)
  \/ filters # Undef /\ ParseText(query)

SpecParse == InitParse /\ [][NextParse]_vars

Next ==
  \/ \E q \in Queries, u \in Users : SearchCurrent(q, u)
  \/ \E ok \in BOOLEAN : EventsFetchedCurrent(ok)
  \/ \E ok \in BOOLEAN : ListingsFetchedCurrent(ok)
  \/ \E ok \in BOOLEAN : PageTrackReturned(ok)
  \/ \E q \in Queries, u \in Users : SearchLegacy(q, u)
  \/ \E prefs \in PreferenceOutcomes : PreferencesLoaded(prefs)
  \/ \E reply \in ParserReplies : ParseReturned(reply)
  \/ \E ok \in BOOLEAN : EventsFetchedLegacy(ok)
  \/ \E ok \in BOOLEAN : ListingsFetchedLegacy(ok)
  \/ \E ok \in BOOLEAN : ComposeReturned(ok)
  \/ \E ok \in BOOLEAN : TrackReturned(ok)

Spec == Init /\ [][Next]_vars

\* Every request to the backend (supabase) settles, with rows or with an error, and
\* the continuation of the awaiting function then runs. Nothing in the code makes
\* the text-understanding dependency settle: callOpenAI is a fetch with no timeout
\* and no abort signal, so ParseReturned and ComposeReturned get no fairness.
BackendResponds ==
  /\ WF_vars(\E ok \in BOOLEAN : EventsFetchedCurrent(ok))
  /\ WF_vars(\E ok \in BOOLEAN : ListingsFetchedCurrent(ok))
  /\ WF_vars(\E ok \in BOOLEAN : PageTrackReturned(ok))
  /\ WF_vars(\E prefs \in PreferenceOutcomes : PreferencesLoaded(prefs))
  /\ WF_vars(\E ok \in BOOLEAN : EventsFetchedLegacy(ok))
  /\ WF_vars(\E ok \in BOOLEAN : ListingsFetchedLegacy(ok))
  /\ WF_vars(\E ok \in BOOLEAN : TrackReturned(ok))

SpecFair == Spec /\ BackendResponds

(***************************************************************************)
(* The listing limit: createListing and deleteListing of                   *)
(* personalListingService (current revision), one step per await           *)
(***************************************************************************)
ListingIds == 1..(MaxAllowed + MaxCalls)

At_(c, where) == calls[c].at = where

Goes(c, where) == calls' = [calls EXCEPT ![c].at = where]

Ends(c) == calls' = [calls EXCEPT ![c] = NoCall]

\* createListing up to its first await: profileService.checkListingLimit
CreateListing(c) ==
  /\ At_(c, "idle") /\ made < MaxCalls
  /\ calls' = [calls EXCEPT ![c] = [op |-> "create", at |-> "check", id |-> MaxAllowed + made + 1]]
  /\ made' = made + 1
  /\ UNCHANGED << search, user_listings, profile >>

\* checkListingLimit settles: it throws on a query error, and createListing
\* throws "Listing limit reached" unless
\* active_listings_count < max_listings_allowed; otherwise the insert is sent
LimitChecked(c, ok) ==
  /\ At_(c, "check")
  /\ LET canCreate == profile.active_listings_count < profile.max_listings_allowed
     IN IF ok /\ canCreate THEN Goes(c, "insert") ELSE Ends(c)
  /\ UNCHANGED << search, user_listings, profile, made >>

\* the insert settles: on an error createListing throws, otherwise the row
\* exists and the rpc increment_listing_count is sent
ListingInserted(c, ok) ==
  /\ At_(c, "insert")
  /\ IF ok
       THEN user_listings' = user_listings \cup {calls[c].id} /\ Goes(c, "increment")
       ELSE UNCHANGED user_listings /\ Ends(c)
  /\ UNCHANGED << search, profile, made >>

\* the rpc settles; its error is not looked at
CountIncremented(c, ok) ==
  /\ At_(c, "increment")
  /\ profile' = IF ok THEN [profile EXCEPT !.active_listings_count = @ + 1] ELSE profile
  /\ Ends(c)
  /\ UNCHANGED << search, user_listings, made >>

\* deleteListing(id, userId) up to its first await: the delete of the row
DeleteListing(c, id) ==
  /\ At_(c, "idle") /\ made < MaxCalls
  /\ calls' = [calls EXCEPT ![c] = [op |-> "delete", at |-> "delete", id |-> id]]
  /\ made' = made + 1
  /\ UNCHANGED << search, user_listings, profile >>

\* the delete settles: on an error deleteListing throws, otherwise the row is
\* gone (if there was one) and the rpc decrement_listing_count is sent
ListingDeleted(c, ok) ==
  /\ At_(c, "delete")
  /\ IF ok
       THEN user_listings' = user_listings \ {calls[c].id} /\ Goes(c, "decrement")
       ELSE UNCHANGED user_listings /\ Ends(c)
  /\ UNCHANGED << search, profile, made >>

\* the rpc settles; its error is not looked at.  The function is defined in the
\* database: it may or may not stop at 0
CountDecremented(c, ok, floored) ==
  /\ At_(c, "decrement")
  /\ profile' = IF ~ok \/ (floored /\ profile.active_listings_count = 0) THEN profile
                ELSE [profile EXCEPT !.active_listings_count = @ - 1]
  /\ Ends(c)
  /\ UNCHANGED << search, user_listings, made >>

\* the user has k listings and the profile counts them
InitLimit ==
  /\ InitSearch
  /\ rev = "current" /\ now = At(3, 10) /\ events = <<>> /\ personal_listings = <<>>
  /\ \E k \in 0..MaxAllowed, max \in 1..MaxAllowed :
       /\ k <= max
       /\ user_listings = 1..k
       /\ profile = [active_listings_count |-> k, max_listings_allowed |-> max]
  /\ calls = [c \in Callers |-> NoCall]
  /\ made = 0

NextLimit ==
  \/ \E c \in Callers : CreateListing(c)
  \/ \E c \in Callers, ok \in BOOLEAN : LimitChecked(c, ok)
  \/ \E c \in Callers, ok \in BOOLEAN : ListingInserted(c, ok)
  \/ \E c \in Callers, ok \in BOOLEAN : CountIncremented(c, ok)
  \/ \E c \in Callers, id \in ListingIds : DeleteListing(c, id)
  \/ \E c \in Callers, ok \in BOOLEAN : ListingDeleted(c, ok)
  \/ \E c \in Callers, ok \in BOOLEAN, floored \in BOOLEAN : CountDecremented(c, ok, floored)

SpecLimit == InitLimit /\ [][NextLimit]_vars

(***************************************************************************)
(* Properties                                                              *)
(***************************************************************************)
\* searchEvents has returned: from its try block ("done") or its catch ("caught")
Finished == pc \in {"done", "caught"}

ApologyOf(r) == IF r = "current" THEN ApologyCurrent ELSE ApologyLegacy

DegradedOf(r) == IF r = "current" THEN DegradedCurrent ELSE DegradedLegacy

\* the parser's reply seen as a FilterSpec
DateRangeOf(f) == IF Get(f, "dateRange").t = "string" THEN Get(f, "dateRange").s ELSE "null"

StringsOf(v) == IF v.t = "array" THEN v.a ELSE <<>>

\* f, a reply of the assisted parser, says what r, a result of parseQuery, says
SameFilterSpec(f, r) ==
  /\ Dereferenceable(f)
  /\ DateRangeOf(f) = r.dateRange
  /\ Truthy(Get(f, "isFree")) = r.isFree
  /\ StringsOf(Get(f, "eventCategories")) = r.categories
  /\ StringsOf(Get(f, "keywords")) = r.keywords

FieldIs(v, name, type) == Get(v, name).t \in {type, "undefined"}

\* v is an object whose FilterSpec fields, where present, have the FilterSpec types
HasFilterSpecShape(v) ==
  /\ v.t = "object"
  /\ FieldIs(v, "dateRange", "string")
  /\ FieldIs(v, "eventCategories", "array")
  /\ FieldIs(v, "personalListingTypes", "array")
  /\ FieldIs(v, "includeBusinessEvents", "boolean")
  /\ FieldIs(v, "includePersonalListings", "boolean")
  /\ FieldIs(v, "ageRange", "number")
  /\ FieldIs(v, "isFree", "boolean")
  /\ FieldIs(v, "maxPrice", "number")
  /\ FieldIs(v, "keywords", "array")

InSeq(x, seq) == \E i \in 1..Len(seq) : seq[i] = x

\* C1: search always returns a result, and a result that comes from an
\* unexpected internal error carries the fixed degraded-service message, empty
\* events, empty listings and totalMatches = 0.
C1_DegradedResultIsComplete ==
  /\ Finished => result # NoResult
  /\ pc = "caught" =>
       /\ result.message = Fixed(DegradedOf(rev))
       /\ result.events = <<>>
       /\ result.personalListings = <<>>
       /\ "totalResults" \in DOMAIN result
       /\ result.totalResults = 0

\* C2: when the text-understanding dependency raises or returns text that is
\* not JSON, the search does not degrade and the filters of its result are the
\* FilterSpec the rule-based parser produces for the same query.
C2_ParseFailureUsesRuleBasedSpec ==
  parseReply.kind \in {"raise", "text"} =>
    /\ SameFilterSpec(filters, parseQuery(query))
    /\ Finished => (pc = "done" /\ result.filters = filters)

\* C3: a reply that is valid JSON without the FilterSpec shape is treated like a
\* parse failure: the search does not degrade and it filters with the fallback
\* FilterSpec, not with the malformed value.
C3_MalformedReplyFallsBack ==
  (Finished /\ parseReply.kind = "json" /\ ~HasFilterSpecShape(parseReply.v)) =>
    /\ pc = "done"
    /\ result.filters = parseUserQuery(query, [kind |-> "raise"])

\* C4: a failed fetch of one source leaves that source empty in a result that is
\* not the degraded one, whatever the other source does.
C4_FetchFailuresAreIsolated ==
  Finished =>
    /\ eventsFetch = "failed" => (pc = "done" /\ result.events = <<>>)
    /\ listingsFetch = "failed" => (pc = "done" /\ result.personalListings = <<>>)

\* C5: the returned events are the first at most 10 filtered events, the returned
\* listings the first at most 5 filtered listings, and totalMatches is the number
\* of filtered events plus the number of filtered listings.
C5_ResultsAreTruncated ==
  pc = "done" =>
    /\ Len(result.events) <= EventLimit
    /\ Len(result.personalListings) <= ListingLimit
    /\ result.events = slice(matchingEvents, EventLimit)
    /\ result.personalListings = slice(matchingListings, ListingLimit)
    /\ result.totalResults = Len(matchingEvents) + Len(matchingListings)

\* C6: when no event and no listing passes the filters, the result is the fixed
\* apology with empty events, empty listings and totalMatches = 0, and neither
\* the language-generation dependency nor the interaction tracker was called.
C6_ZeroMatchesGiveTheApology ==
  (pc = "done" /\ matchingEvents = <<>> /\ matchingListings = <<>>) =>
    /\ result.message = Fixed(ApologyOf(rev))
    /\ result.events = <<>>
    /\ result.personalListings = <<>>
    /\ result.totalResults = 0
    /\ composeCalls = 0
    /\ tracked = <<>>

\* C6 witness: a signed-in legacy search over a non-empty events table that
\* matched nothing
C6_Witness ==
  /\ pc = "done" /\ rev = "legacy" /\ userId # NoUser
  /\ matchingEvents = <<>> /\ matchingListings = <<>>
  /\ eventsFetch = "ok" /\ Len(searchEventsLegacy(events, now)) > 0
  /\ result.message = Fixed(ApologyLegacy)

\* f without its dateRange
WithoutDateRange(f) == JObj([n \in DOMAIN f.f \ {"dateRange"} |-> f.f[n]])

\* listing l passes every criterion of the search other than the date range
PassesOtherCriteria(l) ==
  IF rev = "current"
    THEN Len(filters.keywords) > 0 => SomeKeyword(SearchTextCurrent(l), filters.keywords)
    ELSE ListingVerdict(l, WithoutDateRange(filters), now) = "keep"

EventMeetsFilters(e) ==
  IF rev = "current"
    THEN /\ filters.dateRange # "null" => DateRangeSelects(filters.dateRange, e.start_date, now)
         /\ filters.isFree => e.is_free
         /\ Len(filters.categories) > 0 => arrIncludes(filters.categories, e.category)
         /\ Len(filters.keywords) > 0 => SomeKeyword(SearchTextCurrent(e), filters.keywords)
    ELSE EventVerdict(e, filters, now) = "keep"

\* the criteria a listing is held against: the date range when it has a date,
\* the listing types and the keywords
ListingMeetsFilters(l) ==
  IF rev = "current"
    THEN /\ (filters.dateRange # "null" /\ l.start_date # NULL)
              => DateRangeSelects(filters.dateRange, l.start_date, now)
         /\ Len(filters.keywords) > 0 => SomeKeyword(SearchTextCurrent(l), filters.keywords)
    ELSE ListingVerdict(l, filters, now) = "keep"

\* C8: every returned event and every returned listing satisfies every active
\* criterion of the result's filters: the same strict AND on both collections.
C8_ResultsMeetEveryActiveCriterion ==
  pc = "done" =>
    /\ \A i \in 1..Len(result.events) : EventMeetsFilters(result.events[i])
    /\ \A i \in 1..Len(result.personalListings) :
         ListingMeetsFilters(result.personalListings[i])

IsFreeActive == IF rev = "current" THEN filters.isFree ELSE Truthy(Get(filters, "isFree"))

\* C9: with isFree = true in the filters every returned candidate, event or
\* listing, is free, whatever maxPrice is and whatever the candidates cost.
C9_FreeFilterReturnsOnlyFreeCandidates ==
  (pc = "done" /\ IsFreeActive) =>
    /\ \A i \in 1..Len(result.events) : result.events[i].is_free
    /\ \A i \in 1..Len(result.personalListings) : ListingIsFree(result.personalListings[i])

\* the events and the listings a search with the FilterSpec S keeps, both
\* fetches having succeeded
ApplyEvents(S) ==
  IF rev = "current"
    THEN FilterEventsCurrent(
           searchEventsCurrent(events, [dateRange |-> S.dateRange, isFree |-> S.isFree], now),
           S)
    ELSE filterEvents(searchEventsLegacy(events, now), S, now).items

ApplyListings(S) ==
  IF rev = "current"
    THEN FilterListingsCurrent(getListings(personal_listings), S)
    ELSE filterPersonalListings(getListings(personal_listings), S, now).items

\* the object f with the property name set to v
WithField(f, name, v) ==
  JObj([n \in DOMAIN f.f \cup {name} |-> IF n = name THEN v ELSE f.f[n]])

AddedDateRanges == {"today", "this_weekend", "this_week", "next_week"}

AddedKeywords == {"family", "sale"}

AddedListingTypes == {"Garage Sale", "Meetup"}

AddedMaxPrice == 10

AddedAge == 5

\* categories that events of the tables have, and one that none has
AddedCategories == {"Family & Kids", "Community", "Music & Concerts", "Education"}

\* the FilterSpecs that have the constraints of S and one more, a category being
\* added to any category list when anyCategories, to an empty one otherwise
RestrictionsCurrent(S, anyCategories) ==
  {[S EXCEPT !.dateRange = d] : d \in IF S.dateRange = "null" THEN AddedDateRanges ELSE {}}
    \cup (IF S.isFree THEN {} ELSE {[S EXCEPT !.isFree = TRUE]})
    \cup {[S EXCEPT !.categories = Append(@, c)] :
            c \in IF anyCategories \/ S.categories = <<>>
                    THEN {c \in AddedCategories : ~arrIncludes(S.categories, c)} ELSE {}}
    \cup {[S EXCEPT !.keywords = <<k>>] :
            k \in IF S.keywords = <<>> THEN AddedKeywords ELSE {}}

RestrictionsLegacy(S, anyCategories) ==
  LET cats == StringsOf(Get(S, "eventCategories"))
      types == StringsOf(Get(S, "personalListingTypes"))
  IN {WithField(S, "dateRange", JStr(d)) :
        d \in IF Get(S, "dateRange") = Undef THEN AddedDateRanges ELSE {}}
       \cup (IF Truthy(Get(S, "isFree")) THEN {} ELSE {WithField(S, "isFree", JBool(TRUE))})
       \cup (IF Get(S, "maxPrice") = Undef
               THEN {WithField(S, "maxPrice", JNum(AddedMaxPrice))} ELSE {})
       \cup (IF Get(S, "ageRange") = Undef
               THEN {WithField(S, "ageRange", JNum(AddedAge))} ELSE {})
       \cup {WithField(S, "eventCategories", JArr(Append(cats, c))) :
               c \in IF anyCategories \/ cats = <<>>
                       THEN {c \in AddedCategories : ~arrIncludes(cats, c)} ELSE {}}
       \cup {WithField(S, "personalListingTypes", JArr(Append(types, c))) :
               c \in IF anyCategories \/ types = <<>>
                       THEN {c \in AddedListingTypes : ~arrIncludes(types, c)} ELSE {}}
       \cup {WithField(S, "keywords", JArr(<<k>>)) :
               k \in IF StringsOf(Get(S, "keywords")) = <<>> THEN AddedKeywords ELSE {}}

Restrictions(S, anyCategories) ==
  IF rev = "current" THEN RestrictionsCurrent(S, anyCategories)
  ELSE RestrictionsLegacy(S, anyCategories)

\* the search has a well-formed FilterSpec and has not fetched yet.  The filters
\* read neither the user nor the preferences (those reorder the kept events), so
\* the searches without a user stand for all.
FilterSpecInHand ==
  /\ pc \in {"fetchEvents", "fetchListings"}
  /\ eventsFetch = "none"
  /\ userId = NoUser
  /\ rev = "legacy" => HasFilterSpecShape(filters)

SubSequence(a, b) == \A i \in 1..Len(a) : InSeq(a[i], b)

Monotone(anyCategories) ==
  FilterSpecInHand =>
    LET keptEvents == ApplyEvents(filters)
        keptListings == ApplyListings(filters)
    IN \A R \in Restrictions(filters, anyCategories) :
         /\ SubSequence(ApplyEvents(R), keptEvents)
         /\ SubSequence(ApplyListings(R), keptListings)

\* C10 as stated: a FilterSpec with one more constraint (a date range, a
\* category, isFree, maxPrice, ageRange, or keywords added to an empty keyword
\* list) keeps nothing that the FilterSpec without it drops.
C10_FilteringIsMonotone == Monotone(TRUE)

\* C10, amended: as stated, with categories (and listing types) counted as one
\* more constraint only when they are added to an empty list; a category added to
\* a non-empty list is one more alternative.
C10_FilteringIsMonotoneFromEmptyLists == Monotone(FALSE)

\* C10 witness: a restriction of the FilterSpec in hand keeps some of the events
\* the FilterSpec keeps and drops others
C10_Witness ==
  /\ FilterSpecInHand
  /\ \E R \in Restrictions(filters, FALSE) :
       /\ Len(ApplyEvents(R)) > 0
       /\ Len(ApplyEvents(R)) < Len(ApplyEvents(filters))

\* the date phrases in the priority of the claim, each with its date range
DatePriority ==
  << <<"today", "today">>, <<"tomorrow", "tomorrow">>, <<"weekend", "this_weekend">>,
     <<"week", "this_week">>, <<"next week", "next_week">> >>

\* the date range of the first phrase of DatePriority that lowerQuery contains
FirstDateMatch(lowerQuery) ==
  LET hits == {i \in 1..Len(DatePriority) : includes(lowerQuery, DatePriority[i][1])}
  IN IF hits = {} THEN "null"
     ELSE DatePriority[CHOOSE i \in hits : \A j \in hits : i <= j][2]

\* parseQuery has parsed the text in query
Parsed == pc = "idle" /\ filters # Undef

\* C11: the rule-based parser takes the date range of the first date phrase the
\* query contains, in the order today, tomorrow, weekend, week, next week; a
\* query that contains "weekend" and neither "today" nor "tomorrow" gets
\* this_weekend.
C11_DatePhrasesByPriority ==
  Parsed =>
    LET lowerQuery == toLowerCase(query)
    IN /\ filters.dateRange = FirstDateMatch(lowerQuery)
       /\ (includes(lowerQuery, "weekend") /\ ~includes(lowerQuery, "today")
             /\ ~includes(lowerQuery, "tomorrow"))
            => filters.dateRange = "this_weekend"

\* C11 witness: a text with "next week" ahead of "weekend" was parsed to this_weekend
C11_Witness ==
  /\ Parsed
  /\ includes(toLowerCase(query), "next week weekend")
  /\ filters.dateRange = "this_weekend"

\* the words that name a category: the labels, their heads before "&", the synonyms
CategoryWords ==
  { "family", "kids", "children", "music", "concert", "live", "food", "dining",
    "restaurant", "sports", "arts", "community", "education", "business", "health",
    "seasonal" }

StopWords == {commonWords[i] : i \in 1..Len(commonWords)}

\* text has only stopwords and words of at most two characters, and no date
\* phrase, no "free" and no category word
Unrecognizable(text) ==
  LET lowerQuery == toLowerCase(text)
      words == split(lowerQuery)
  IN /\ \A i \in 1..Len(words) : Len(words[i]) <= 2 \/ words[i] \in StopWords
     /\ \A w \in {"today", "tomorrow", "weekend", "week", "free"} \cup CategoryWords :
          ~includes(lowerQuery, w)

DefaultFilterSpec ==
  [dateRange |-> "null", isFree |-> FALSE, categories |-> <<>>, keywords |-> <<>>]

\* C12: the empty query and every query of stopwords and short words only, with
\* no date phrase, no "free" and no category word, parses to the FilterSpec with
\* every field at its default; parsing the same text again gives the same FilterSpec.
C12_UnrecognizableTextParsesToDefaults ==
  Parsed =>
    /\ Unrecognizable(query) => filters = DefaultFilterSpec
    /\ parseQuery(query) = filters

\* C12 witness: a text of three stopwords or short words was parsed to the defaults
C12_Witness ==
  /\ Parsed
  /\ Len(split(toLowerCase(query))) = 3
  /\ Unrecognizable(query)
  /\ filters = DefaultFilterSpec

\* the FilterSpec of the running revision with no criterion, and with the date
\* range this_weekend as its only criterion
NoCriteria == IF rev = "current" THEN DefaultFilterSpec ELSE EmptyObject

WeekendOnly ==
  IF rev = "current" THEN [DefaultFilterSpec EXCEPT !.dateRange = "this_weekend"]
  ELSE JObj([dateRange |-> JStr("this_weekend")])

\* a search for this_weekend has fetched its events and returned
WeekendSearch ==
  /\ pc = "done" /\ eventsFetch = "ok"
  /\ IF rev = "current" THEN filters.dateRange = "this_weekend"
     ELSE DateRangeOf(filters) = "this_weekend"

\* Friday 18:00 of the week of t, and 23:59:59 of the Sunday two days later
FridayEvening(t) == addDays(startOfDay(t), 5 - getDay(t)) + 18 * 3600

SundayNight(t) == addDays(startOfDay(t), 7 - getDay(t)) + (DaySeconds - 1)

\* C13: with now on a Monday to Friday, this_weekend keeps an event exactly when
\* its start date lies between Friday 18:00 of that week and 23:59:59 of the
\* Sunday that follows.
C13_WeekendWindowOnWeekdays ==
  (WeekendSearch /\ getDay(now) \in 1..5) =>
    LET candidates == ApplyEvents(NoCriteria)
        kept == ApplyEvents(WeekendOnly)
    IN \A i \in 1..Len(candidates) :
         InSeq(candidates[i], kept)
           <=> /\ candidates[i].start_date >= FridayEvening(now)
               /\ candidates[i].start_date <= SundayNight(now)

\* 23:59:59 of the Sunday of the weekend that contains t, a Saturday or a Sunday
EndOfThisWeekend(t) ==
  addDays(startOfDay(t), IF getDay(t) = 6 THEN 1 ELSE 0) + (DaySeconds - 1)

\* C14: with now on a Saturday or a Sunday, this_weekend is the weekend that
\* contains now: nothing that starts after its Sunday is kept, neither event nor
\* dated listing, and an event still to come on that Sunday is kept.
C14_WeekendWindowOnTheWeekend ==
  (WeekendSearch /\ getDay(now) \in {0, 6}) =>
    LET candidates == ApplyEvents(NoCriteria)
        kept == ApplyEvents(WeekendOnly)
        keptListings == ApplyListings(WeekendOnly)
    IN /\ \A i \in 1..Len(kept) : kept[i].start_date <= EndOfThisWeekend(now)
       /\ \A i \in 1..Len(keptListings) :
            keptListings[i].start_date # NULL
              => keptListings[i].start_date <= EndOfThisWeekend(now)
       /\ \A i \in 1..Len(candidates) :
            (/\ candidates[i].start_date >= now
             /\ candidates[i].start_date > EndOfThisWeekend(now) - DaySeconds
             /\ candidates[i].start_date <= EndOfThisWeekend(now))
              => InSeq(candidates[i], kept)

FamilyWeekendQuery == "free family activities this weekend"

\* C15: the rule-based search for "free family activities this weekend" returns
\* exactly the events that are free, of category Family & Kids and inside the
\* weekend window, whatever their titles and descriptions say.
C15_FreeFamilyWeekendReturnsExactlyTheMatches ==
  (pc = "done" /\ rev = "current" /\ query = FamilyWeekendQuery /\ eventsFetch = "ok") =>
    LET Meets(e) ==
          /\ e.is_approved /\ e.is_free /\ e.category = "Family & Kids"
          /\ DateRangeSelects("this_weekend", e.start_date, now)
    IN result.events = slice(OrderByStartDate(SelectSeq(events, Meets)), EventLimit)

\* C16: a search that has started eventually returns, even when the
\* text-understanding dependency never responds.
C16_SearchEventuallyReturns == (pc # "idle") ~> Finished

\* the chat page still shows its loading state: setLoading(false) has not run
Loading == chat \in {"loading", "tracking"}

\* a trackInteraction call has been made and has not settled
TrackInFlight == pc = "track" \/ chat = "tracking"

\* C17: while a tracking call is in flight the search has already returned its
\* result and the chat has left its loading state.
C17_TrackingIsFireAndForget == TrackInFlight => (Finished /\ ~Loading)

\* the search has returned and the chat page has finished with its result
Settled == Finished /\ chat = "shown"

\* C18: once a search is over, exactly one "view" has been reported, for the
\* first event of the result, when a user is given and an event matched, and
\* none otherwise.
C18_OneViewForTheFirstEvent ==
  Settled =>
    IF userId # NoUser /\ Len(result.events) > 0
      THEN /\ Len(tracked) = 1
           /\ tracked[1].userId = userId
           /\ tracked[1].eventId = result.events[1].id
           /\ tracked[1].interactionType = "view"
      ELSE tracked = <<>>

\* C19: the listings fetch of a search starts while its events fetch has not
\* completed.
C19_FetchesRunConcurrently ==
  [][(pc' = "fetchListings" /\ pc # "fetchListings") => eventsFetch' = "none"]_vars

\* C20: when the phrasing call fails, the search returns the result it returns
\* when phrasing succeeds, but for the message, which is the template with the
\* number of matches.
C20_PhrasingFailureFallsBackToTemplate ==
  (Finished /\ composeReply = "failed") =>
    LET phrased == Returned([Locals EXCEPT !.response = AssistedResponse], filters).result
        template == FallbackResponse(matchingEvents, matchingListings)
    IN /\ pc = "done"
       /\ template.kind = "template" /\ template.total > 0
       /\ result = [phrased EXCEPT !.message = template]

C20_Witness ==
  /\ pc = "done" /\ composeReply = "failed"
  /\ Len(result.events) > 0 /\ Len(result.personalListings) > 0
  /\ result.message.kind = "template"
  /\ result.totalResults = Len(result.events) + Len(result.personalListings)

\* the text-understanding dependency answered with a JSON object that has no
\* property of this name
ReplyOmits(name) ==
  /\ parseReply.kind = "json"
  /\ parseReply.v.t = "object"
  /\ name \notin DOMAIN parseReply.v.f

\* C21: a search whose parsed reply omits includePersonalListings fetches the
\* listings, and one whose reply omits includeBusinessEvents fetches the events,
\* as if the omitted flag were true.
C21_OmittedIncludeFlagsDefaultToTrue ==
  (pc = "done" /\ rev = "legacy") =>
    /\ ReplyOmits("includePersonalListings") => listingsFetch # "none"
    /\ ReplyOmits("includeBusinessEvents") => eventsFetch # "none"

\* the values of dateRange; "null" is the absent date range
DateRangeEnum == {"null", "today", "tomorrow", "this_week", "this_weekend", "next_week"}

CategoryEnum == {EVENT_CATEGORIES[i] : i \in 1..Len(EVENT_CATEGORIES)}

\* the date range and the categories of the filters f of the running revision
FiltersDateRange(f) ==
  IF rev = "current" THEN f.dateRange ELSE DateRangeOf(f)

FiltersCategories(f) ==
  IF rev = "current" THEN f.categories ELSE StringsOf(Get(f, "eventCategories"))

\* C22: the filters of every returned result have a date range of the
\* enumeration and categories of the category vocabulary only.
C22_ReturnedFiltersUseTheClosedSets ==
  pc = "done" =>
    /\ FiltersDateRange(result.filters) \in DateRangeEnum
    /\ \A i \in 1..Len(FiltersCategories(result.filters)) :
         FiltersCategories(result.filters)[i] \in CategoryEnum

\* the greatest ageRange asked for
MaxAgeRange == 18

WithoutField(f, name) == JObj([n \in DOMAIN f.f \ {name} |-> f.f[n]])

\* the event declares an age band
HasAgeBand(event) == event.age_min # NULL /\ event.age_max # NULL

\* a legacy search whose filters carry an ageRange has fetched its events and
\* returned (the FilterSpec of the current revision has no ageRange)
AgeSearch ==
  /\ pc = "done" /\ rev = "legacy" /\ eventsFetch = "ok"
  /\ HasFilterSpecShape(filters)
  /\ Get(filters, "ageRange").t = "number"

FreeAndCappedSearch ==
  /\ pc = "done" /\ rev = "legacy"
  /\ Truthy(Get(filters, "isFree"))
  /\ Get(filters, "maxPrice").t = "number"

\* C24: with isFree = true and a maxPrice in the filters, every returned
\* candidate, event or listing, is free and costs at most maxPrice.
C24_FreeAndMaxPriceBothApply ==
  FreeAndCappedSearch =>
    /\ \A i \in 1..Len(result.events) :
         /\ result.events[i].is_free
         /\ result.events[i].cost <= Get(filters, "maxPrice").n
    /\ \A i \in 1..Len(result.personalListings) :
         /\ ListingIsFree(result.personalListings[i])
         /\ result.personalListings[i].price <= Get(filters, "maxPrice").n

\* category lists and listing-type lists a FilterSpec can carry; the last type
\* is not a label of PERSONAL_LISTING_CATEGORIES
CategoryLists == {<<>>, <<"Family & Kids">>, <<"Community", "Music & Concerts">>, <<"Education">>}

ListingTypeLists == {<<>>, <<"Garage Sale">>, <<"Meetup", "Book Club">>, <<"sale">>}

\* the FilterSpec of the running revision with these categories, and the one
\* with these listing types, as its only criterion
CategoriesOnly(C) ==
  IF rev = "current" THEN [DefaultFilterSpec EXCEPT !.categories = C]
  ELSE JObj([eventCategories |-> JArr(C)])

ListingTypesOnly(T) == JObj([personalListingTypes |-> JArr(T)])

\* C25: an event is dropped by the categories exactly when the list is not empty
\* and does not have the event's category; a listing is dropped by the listing
\* types exactly when the list is not empty and does not have the listing's
\* category.
C25_CategoryCriterionIsMembership ==
  pc = "done" =>
    /\ LET candidates == ApplyEvents(NoCriteria)
       IN \A C \in CategoryLists : \A i \in 1..Len(candidates) :
            InSeq(candidates[i], ApplyEvents(CategoriesOnly(C)))
              <=> (C = <<>> \/ InSeq(candidates[i].category, C))
    /\ rev = "legacy" =>
         LET candidates == ApplyListings(NoCriteria)
         IN \A T \in ListingTypeLists : \A i \in 1..Len(candidates) :
              InSeq(candidates[i], ApplyListings(ListingTypesOnly(T)))
                <=> (T = <<>> \/ InSeq(candidates[i].category, T))

\* rows are in ascending order of start_date, the rows without one last
ByStartDateNullsLast(rows) ==
  \A i, j \in 1..Len(rows) :
    i < j => \/ rows[j].start_date = NULL
             \/ (rows[i].start_date # NULL /\ rows[i].start_date <= rows[j].start_date)

\* the rows of a are rows of b, in the order they have in b (ids are unique)
KeepsOrder(a, b) ==
  /\ SubSequence(a, b)
  /\ \A i, j \in 1..Len(a) :
       i < j => (CHOOSE k \in 1..Len(b) : b[k] = a[i]) < (CHOOSE k \in 1..Len(b) : b[k] = a[j])

\* what the events query of the running revision returns for these filters
FetchedEvents ==
  IF rev = "current"
    THEN searchEventsCurrent(events, [dateRange |-> filters.dateRange, isFree |-> filters.isFree], now)
    ELSE searchEventsLegacy(events, now)

\* C26: the events and the listings of a result are each in ascending order of
\* start date, undated ones last, and in the order the fetch returned them.
C26_ResultsAreOrderedByStartDate ==
  pc = "done" =>
    /\ ByStartDateNullsLast(result.events)
    /\ KeepsOrder(result.events, FetchedEvents)
    /\ ByStartDateNullsLast(result.personalListings)
    /\ KeepsOrder(result.personalListings, getListings(personal_listings))

\* a search whose filters carry a date range of the enumeration has returned
DatedSearch ==
  /\ pc = "done"
  /\ rev = "legacy" => Dereferenceable(filters)
  /\ FiltersDateRange(filters) \in DateRangeEnum \ {"null"}

\* C27: whichever date range the filters carry, no returned candidate starts 30
\* days after now or later.
C27_EveryDateRangeRestricts ==
  DatedSearch =>
    /\ \A i \in 1..Len(result.events) : result.events[i].start_date < addDays(now, 30)
    /\ \A i \in 1..Len(result.personalListings) :
         \/ result.personalListings[i].start_date = NULL
         \/ result.personalListings[i].start_date < addDays(now, 30)

\* C28: a parsed query that contains "next week" and none of "today",
\* "tomorrow" and "weekend" has the date range next_week.
C28_NextWeekIsProducible ==
  LET lowerQuery == toLowerCase(query)
  IN (/\ Parsed
      /\ includes(lowerQuery, "next week")
      /\ ~includes(lowerQuery, "today")
      /\ ~includes(lowerQuery, "tomorrow")
      /\ ~includes(lowerQuery, "weekend"))
       => filters.dateRange = "next_week"

\* the events and the listings the search returns when it is given no user: the
\* candidates the filters keep, for each fetch that was made and succeeded
EventsWithoutUser ==
  IF eventsFetch # "ok" THEN <<>>
  ELSE IF rev = "current" THEN slice(ApplyEvents(filters), EventLimit)
  ELSE ApplyEvents(filters)

ListingsWithoutUser ==
  IF listingsFetch # "ok" THEN <<>>
  ELSE IF rev = "current" THEN slice(ApplyListings(filters), ListingLimit)
  ELSE ApplyListings(filters)

\* C29: a search given a user never ends in the degraded-service result on
\* account of that user's data, and returns the events, the listings and the
\* total the same search returns with no user.
C29_ResultDoesNotDependOnUser ==
  (Finished /\ userId # NoUser) =>
    /\ pc = "caught" => (~Dereferenceable(filters) \/ eventsFetch # "none")
    /\ pc = "done" =>
         /\ result.events = EventsWithoutUser
         /\ result.personalListings = ListingsWithoutUser

\* C30: the user never has more listings than max_listings_allowed.
C30_ListingsNeverExceedTheLimit ==
  Cardinality(user_listings) <= profile.max_listings_allowed

====
